---- MODULE Spec2Model ----
(***************************************************************************)
(* Model of the post-analysis application src/app.py: one run of the       *)
(* script on an uploaded CSV table and a hashtag query.                    *)
(*                                                                         *)
(* A string is a sequence of characters; a character is a one-letter       *)
(* string, except the two non-ASCII characters the model needs, which are  *)
(* written "EMOJI" (an emoji code point) and "KANA" (a hiragana letter).   *)
(* Column names are romanised: "toukou_nichiji" is the timestamp column,   *)
(* "tekisuto" the text column of app.py.                                   *)
(***************************************************************************)
EXTENDS Naturals, Integers, Sequences, FiniteSets

(***************************************************************************)
(* Bounds of the model.                                                    *)
(***************************************************************************)
MaxRows == 2
MaxPieces == 3
MaxQuery == 2

(***************************************************************************)
(* Program constants.                                                      *)
(***************************************************************************)
TopHashtags == 10
TopSentiment == 10
TopWords == 20
TopPairs == 20
PreviewRows == 10
Lookahead == 3

(***************************************************************************)
(* Characters and their classes under Python's re (Unicode mode).          *)
(***************************************************************************)
AsciiLower == {"a", "b", "c", "d", "h", "n", "p", "s", "t"}
AsciiUpper == {"A", "B"}
AsciiLetters == AsciiLower \cup AsciiUpper

\* \w
WordChars == AsciiLetters \cup {"_", "KANA"}

IsWord(c) == c \in WordChars

\* \s
SpaceChars == {" ", "\t"}

IsSpace(c) == c \in SpaceChars

\* emoji.replace_emoji's notion of an emoji
IsEmoji(c) == c = "EMOJI"

\* [a-zA-Z] | [0-9] | [$-_@.&+] | [!*\\(\\),]  ($-_ is the range 0x24..0x5F)
UrlChars == AsciiLetters \cup {":", "/", "@", ".", "_", "!"}

\* str.lower on one character
LowerChar(c) == CASE c = "A" -> "a" [] c = "B" -> "b" [] OTHER -> c

\* code point order of the characters (Python compares str by code point)
Ord(c) ==
    CASE c = "\t" -> 9 [] c = " " -> 32 [] c = "!" -> 33 [] c = "#" -> 35
      [] c = "." -> 46 [] c = "/" -> 47 [] c = ":" -> 58 [] c = "@" -> 64
      [] c = "A" -> 65 [] c = "B" -> 66 [] c = "_" -> 95
      [] c = "a" -> 97 [] c = "b" -> 98 [] c = "c" -> 99 [] c = "d" -> 100
      [] c = "h" -> 104 [] c = "n" -> 110 [] c = "p" -> 112 [] c = "s" -> 115
      [] c = "t" -> 116 [] c = "KANA" -> 12354 [] c = "EMOJI" -> 128522

Lower(s) == [i \in 1..Len(s) |-> LowerChar(s[i])]

\* s[i..j] as a sequence (empty when j < i)
Slice(s, i, j) == IF j < i THEN << >> ELSE SubSeq(s, i, j)

\* does t occur in s starting at position i
StartsAt(s, i, t) ==
    /\ i + Len(t) - 1 <= Len(s)
    /\ \A k \in 1..Len(t) : s[i + k - 1] = t[k]

\* the last position of the maximal run of characters of the class C from i on
\* (i - 1 when s[i] is not in C)
RunEnd(s, i, C) ==
    LET stops == {k \in i..Len(s) : s[k] \notin C}
    IN  IF stops = {} THEN Len(s)
        ELSE (CHOOSE k \in stops : \A m \in stops : k <= m) - 1

(***************************************************************************)
(* preprocess_text, step by step.                                          *)
(***************************************************************************)
HTTP == <<"h", "t", "t", "p">>
COLON_SLASHES == <<":", "/", "/">>

\* length of the match of http[s]?:// at i (0: no match)
UrlSchemeLen(s, i) ==
    IF ~StartsAt(s, i, HTTP) THEN 0
    ELSE IF StartsAt(s, i + 4, <<"s">>) /\ StartsAt(s, i + 5, COLON_SLASHES) THEN 8
    ELSE IF StartsAt(s, i + 4, COLON_SLASHES) THEN 7
    ELSE 0

\* last position of the match of the URL pattern at i (0: no match)
UrlMatchEnd(s, i) ==
    LET n == UrlSchemeLen(s, i)
        e == RunEnd(s, i + n, UrlChars)
    IN  IF n > 0 /\ e >= i + n THEN e ELSE 0

\* re.sub(url pattern, '', text)
RECURSIVE RemoveUrlsFrom(_, _)
RemoveUrlsFrom(s, i) ==
    IF i > Len(s) THEN << >>
    ELSE LET e == UrlMatchEnd(s, i)
         IN  IF e > 0 THEN RemoveUrlsFrom(s, e + 1)
             ELSE <<s[i]>> \o RemoveUrlsFrom(s, i + 1)

RemoveUrls(s) == RemoveUrlsFrom(s, 1)

\* re.sub(r'@\w+', '', text)
RECURSIVE RemoveMentionsFrom(_, _)
RemoveMentionsFrom(s, i) ==
    IF i > Len(s) THEN << >>
    ELSE LET e == RunEnd(s, i + 1, WordChars)
         IN  IF s[i] = "@" /\ e >= i + 1 THEN RemoveMentionsFrom(s, e + 1)
             ELSE <<s[i]>> \o RemoveMentionsFrom(s, i + 1)

RemoveMentions(s) == RemoveMentionsFrom(s, 1)

\* emoji.replace_emoji(text, replace='')
IsNotEmoji(c) == ~IsEmoji(c)

ReplaceEmoji(s) == SelectSeq(s, IsNotEmoji)

\* the symbol class, had it spared the mention sign as it spares "#"
KeptBySymbolClass_SparesAt(c) == IsWord(c) \/ IsSpace(c) \/ c \in {"#", "@"}

\* re.sub(r'[^\w\s#]', ' ', text)
KeptBySymbolClass(c) == IsWord(c) \/ IsSpace(c) \/ c = "#"

SymbolsToSpace(s) ==
    [i \in 1..Len(s) |-> IF KeptBySymbolClass(s[i]) THEN s[i] ELSE " "]

\* re.sub(r'\s+', ' ', text)
RECURSIVE CollapseFrom(_, _)
CollapseFrom(s, i) ==
    IF i > Len(s) THEN << >>
    ELSE IF IsSpace(s[i])
         THEN <<" ">> \o CollapseFrom(s, RunEnd(s, i, SpaceChars) + 1)
         ELSE <<s[i]>> \o CollapseFrom(s, i + 1)

CollapseSpaces(s) == CollapseFrom(s, 1)

\* str.strip()
RECURSIVE LStrip(_)
LStrip(s) == IF s # << >> /\ IsSpace(Head(s)) THEN LStrip(Tail(s)) ELSE s

RECURSIVE RStrip(_)
RStrip(s) ==
    IF s # << >> /\ IsSpace(s[Len(s)]) THEN RStrip(SubSeq(s, 1, Len(s) - 1)) ELSE s

Strip(s) == RStrip(LStrip(s))

(***************************************************************************)
(* Cells of the uploaded table.  A text cell is NaN or a string; pandas'   *)
(* astype(str) turns NaN into the string "nan".                            *)
(***************************************************************************)
NaN == [kind |-> "nan"]
Str(s) == [kind |-> "str", s |-> s]

IsNa(cell) == cell.kind = "nan"

AsTypeStr(cell) == IF IsNa(cell) THEN Str(<<"n", "a", "n">>) ELSE cell

preprocess_text(text) ==
    IF IsNa(text) THEN << >>
    ELSE Strip(CollapseSpaces(SymbolsToSpace(ReplaceEmoji(
             RemoveMentions(RemoveUrls(text.s))))))

\* re.findall(r'#\w+', text)
RECURSIVE FindHashtagsFrom(_, _)
FindHashtagsFrom(s, i) ==
    IF i > Len(s) THEN << >>
    ELSE LET e == RunEnd(s, i + 1, WordChars)
         IN  IF s[i] = "#" /\ e >= i + 1
             THEN <<Slice(s, i, e)>> \o FindHashtagsFrom(s, e + 1)
             ELSE FindHashtagsFrom(s, i + 1)

extract_hashtags(text) ==
    IF IsNa(text) THEN << >> ELSE FindHashtagsFrom(text.s, 1)

(***************************************************************************)
(* analyze_sentiment.  TextBlob's polarity is the mean of the polarities   *)
(* of the words of the text that its lexicon knows; of the words the       *)
(* model's alphabet can spell the lexicon knows "bad" (-0.7, in tenths).   *)
(***************************************************************************)
BAD == <<"b", "a", "d">>

\* the maximal runs of characters of the class C in s, left to right
RECURSIVE RunsFrom(_, _, _)
RunsFrom(s, i, C) ==
    IF i > Len(s) THEN << >>
    ELSE LET e == RunEnd(s, i, C)
         IN  IF e >= i THEN <<Slice(s, i, e)>> \o RunsFrom(s, e + 1, C)
             ELSE RunsFrom(s, i + 1, C)

Runs(s, C) == RunsFrom(s, 1, C)

IsAssessed(w) == Lower(w) = BAD

Polarity(s) ==
    LET assessed == SelectSeq(Runs(s, AsciiLetters), IsAssessed)
    IN  IF assessed = << >> THEN 0 ELSE (-7 * Len(assessed)) \div Len(assessed)

analyze_sentiment(text) ==
    IF IsNa(text) \/ text.s = << >> THEN 0 ELSE Polarity(text.s)

(***************************************************************************)
(* jieba.cut (default mode) on the model's alphabet, where no run of       *)
(* characters is a dictionary word: a run of [a-zA-Z0-9+#&._%-] is a block *)
(* cut by finalseg into its alphanumeric runs and the runs between them;   *)
(* every other character (white space, kana) is a token of its own.        *)
(***************************************************************************)
HanDefaultChars == AsciiLetters \cup {"#", "_", "."}
AlnumChars == AsciiLetters

\* finalseg.cut of a block: re_skip.split, empty pieces dropped
RECURSIVE FinalSegFrom(_, _)
FinalSegFrom(b, i) ==
    IF i > Len(b) THEN << >>
    ELSE LET C == IF b[i] \in AlnumChars THEN AlnumChars
                  ELSE HanDefaultChars \ AlnumChars
             e == RunEnd(b, i, C)
         IN  <<Slice(b, i, e)>> \o FinalSegFrom(b, e + 1)

\* __cut_DAG of a block without dictionary words
CutBlock(b) == IF Len(b) = 1 THEN <<b>> ELSE FinalSegFrom(b, 1)

RECURSIVE CutFrom(_, _)
CutFrom(s, i) ==
    IF i > Len(s) THEN << >>
    ELSE IF s[i] \in HanDefaultChars
         THEN LET e == RunEnd(s, i, HanDefaultChars)
              IN  CutBlock(Slice(s, i, e)) \o CutFrom(s, e + 1)
         ELSE <<Slice(s, i, i)>> \o CutFrom(s, i + 1)

jieba_cut(s) == CutFrom(s, 1)

\* ' '.join(strings)
RECURSIVE JoinSpace(_)
JoinSpace(ws) ==
    IF ws = << >> THEN << >>
    ELSE IF Len(ws) = 1 THEN ws[1]
    ELSE ws[1] \o <<" ">> \o JoinSpace(Tail(ws))

\* str.split(): the maximal runs of non-white-space characters
NonSpaceChars == {"!", "#", ".", "/", ":", "@", "EMOJI"} \cup WordChars

Split(s) == Runs(s, NonSpaceChars)

(***************************************************************************)
(* collections.Counter: the keys in first-seen order, each with its count, *)
(* and most_common(n): a stable sort by descending count, cut at n.        *)
(***************************************************************************)
RECURSIVE CounterAdd(_, _)
CounterAdd(counter, key) ==
    IF counter = << >> THEN <<[key |-> key, count |-> 1]>>
    ELSE IF Head(counter).key = key
         THEN <<[key |-> key, count |-> Head(counter).count + 1]>> \o Tail(counter)
         ELSE <<Head(counter)>> \o CounterAdd(Tail(counter), key)

RECURSIVE Counter(_)
Counter(items) ==
    IF items = << >> THEN << >>
    ELSE CounterAdd(Counter(SubSeq(items, 1, Len(items) - 1)), items[Len(items)])

\* the insertion, had it put e before the entries of the same count
RECURSIVE InsertByCount_TiesLastFirst(_, _)
InsertByCount_TiesLastFirst(sorted, e) ==
    IF sorted = << >> THEN <<e>>
    ELSE IF Head(sorted).count > e.count
         THEN <<Head(sorted)>> \o InsertByCount_TiesLastFirst(Tail(sorted), e)
         ELSE <<e>> \o sorted

\* insert e behind every entry whose count is at least e's
RECURSIVE InsertByCount(_, _)
InsertByCount(sorted, e) ==
    IF sorted = << >> THEN <<e>>
    ELSE IF Head(sorted).count >= e.count
         THEN <<Head(sorted)>> \o InsertByCount(Tail(sorted), e)
         ELSE <<e>> \o sorted

RECURSIVE SortByCount(_)
SortByCount(counter) ==
    IF counter = << >> THEN << >>
    ELSE InsertByCount(SortByCount(SubSeq(counter, 1, Len(counter) - 1)),
                       counter[Len(counter)])

FirstN(seq, n) == IF Len(seq) <= n THEN seq ELSE SubSeq(seq, 1, n)

most_common(counter, n) == FirstN(SortByCount(counter), n)

(***************************************************************************)
(* The uploaded table.  A file is absent, unreadable by pd.read_csv, or a  *)
(* CSV: a set of column names as written and a sequence of rows, each a    *)
(* function from the column names to cells.  A timestamp cell is NaN, a    *)
(* string that is no date ("bad"), or a date and hour written either as    *)
(* YYYY/MM/DD HH:MM ("slash") or in ISO 8601 ("iso").                      *)
(***************************************************************************)
None == [kind |-> "None"]
NaT == [kind |-> "NaT"]
Timestamp(d, h) == [kind |-> "ts", date |-> d, hour |-> h]

COL_TOUKOU_NICHIJI == "toukou_nichiji"
COL_CREATED_AT == "created_at"
COL_SHORIZUMI == "tekisuto_shorizumi"
COL_HASHTAG == "hashtag"
COL_KANJOU_SCORE == "kanjou_score"
TextColumnCandidates == <<"tekisuto", "text", "content", "tweet_text">>

\* df.columns.str.strip() on the column names the model uses
StripName(name) ==
    CASE name = " text" -> "text"
      [] name = "toukou_nichiji " -> "toukou_nichiji"
      [] OTHER -> name

Columns(file) == {StripName(r) : r \in file.header}

CellOf(file, row, column) ==
    row[CHOOSE r \in file.header : StripName(r) = column]

\* pd.to_datetime(..., format='%Y/%m/%d %H:%M', errors='coerce')
to_datetime_format(cell) ==
    IF cell.kind = "slash" THEN Timestamp(cell.date, cell.hour) ELSE NaT

\* pd.to_datetime(..., errors='coerce'); the created_at cells of the model are
\* written in ISO 8601, NaN or no date
to_datetime(cell) ==
    IF cell.kind = "iso" THEN Timestamp(cell.date, cell.hour) ELSE NaT

\* the first candidate that is a column, 0 when none is
FirstTextColumn(columns) ==
    LET found == {i \in 1..Len(TextColumnCandidates) : TextColumnCandidates[i] \in columns}
    IN  IF found = {} THEN 0 ELSE CHOOSE i \in found : \A j \in found : i <= j

ProcessRow(file, row, text_column, columns) ==
    LET raw == CellOf(file, row, text_column)
    IN  [toukou_nichiji |->
             IF COL_TOUKOU_NICHIJI \in columns
             THEN to_datetime_format(CellOf(file, row, COL_TOUKOU_NICHIJI))
             ELSE IF COL_CREATED_AT \in columns
             THEN to_datetime(CellOf(file, row, COL_CREATED_AT))
             ELSE None,
         text |-> raw,
         tekisuto_shorizumi |-> preprocess_text(AsTypeStr(raw)),
         hashtag |-> extract_hashtags(AsTypeStr(raw)),
         kanjou_score |-> analyze_sentiment(AsTypeStr(raw))]

\* what load_and_process_data returns and the error it shows:
\* "df, text_column", the bare "None", or "None, None"
load_and_process_data(file) ==
    IF file.kind = "malformed"
    THEN [returns |-> "None, None", error |-> "read_error",
          df |-> None, text_column |-> "None"]
    ELSE LET columns == Columns(file)
             t == FirstTextColumn(columns)
         IN  IF t = 0
             THEN [returns |-> "None", error |-> "no_text_column",
                   df |-> None, text_column |-> "None"]
             ELSE [returns |-> "df, text_column", error |-> "",
                   df |-> [kind |-> "df",
                           columns |->
                               columns \cup {COL_SHORIZUMI, COL_HASHTAG, COL_KANJOU_SCORE}
                                 \cup (IF COL_CREATED_AT \in columns
                                       THEN {COL_TOUKOU_NICHIJI} ELSE {}),
                           rows |->
                               [i \in 1..Len(file.rows) |->
                                   ProcessRow(file, file.rows[i],
                                              TextColumnCandidates[t], columns)]],
                   text_column |-> TextColumnCandidates[t]]

(***************************************************************************)
(* filter_by_hashtag.  Series.str.contains takes its argument as a regular *)
(* expression (regex=True is the default); of the characters a query of    *)
(* the model can hold, "." is the one the regex does not take literally.   *)
(***************************************************************************)
RegexMatchAt(pattern, s, i) ==
    /\ i + Len(pattern) - 1 <= Len(s)
    /\ \A k \in 1..Len(pattern) :
          \/ pattern[k] = "."
          \/ LowerChar(pattern[k]) = LowerChar(s[i + k - 1])

\* re.search(pattern, s, re.IGNORECASE)
RegexSearch(pattern, s) == \E i \in 1..Len(s) + 1 : RegexMatchAt(pattern, s, i)

\* needle in s
Contains(s, needle) == \E i \in 1..Len(s) + 1 : StartsAt(s, i, needle)

filter_by_hashtag(frame, hashtag) ==
    IF hashtag = << >> THEN frame
    ELSE LET lowered == Lower(hashtag)
             InText(row) == RegexSearch(lowered, row.tekisuto_shorizumi)
             InTags(row) ==
                 \E k \in 1..Len(row.hashtag) : Contains(Lower(row.hashtag[k]), lowered)
             first == SelectSeq(frame.rows, InText)
         IN  IF Len(first) = 0
             THEN [frame EXCEPT !.rows = SelectSeq(frame.rows, InTags)]
             ELSE [frame EXCEPT !.rows = first]

(***************************************************************************)
(* The analytics of the five tabs.                                         *)
(***************************************************************************)
RECURSIVE SumSeq(_)
SumSeq(xs) == IF xs = << >> THEN 0 ELSE Head(xs) + SumSeq(Tail(xs))

RECURSIVE Flatten(_)
Flatten(seqs) == IF seqs = << >> THEN << >> ELSE Head(seqs) \o Flatten(Tail(seqs))

\* tab1: the four metrics (a mean is kept as its sum over the row count)
BasicStats(rows) ==
    [total |-> Len(rows),
     sum_length |-> SumSeq([i \in 1..Len(rows) |-> Len(rows[i].tekisuto_shorizumi)]),
     total_hashtags |-> SumSeq([i \in 1..Len(rows) |-> Len(rows[i].hashtag)]),
     sum_sentiment |-> SumSeq([i \in 1..Len(rows) |-> rows[i].kanjou_score])]

\* tab1: df_filtered[[...]].head(10)
Preview(rows) ==
    FirstN([i \in 1..Len(rows) |->
               [toukou_nichiji |-> rows[i].toukou_nichiji,
                tekisuto_shorizumi |-> rows[i].tekisuto_shorizumi,
                hashtag |-> rows[i].hashtag,
                kanjou_score |-> rows[i].kanjou_score]], PreviewRows)

\* tab2: Counter(all_hashtags).most_common(10)
HashtagRanking(rows) ==
    most_common(Counter(Flatten([i \in 1..Len(rows) |-> rows[i].hashtag])), TopHashtags)

\* tab2: df_filtered.nlargest(10, kanjou_score): stable, the first row wins a tie
RECURSIVE InsertByScore(_, _)
InsertByScore(sorted, row) ==
    IF sorted = << >> THEN <<row>>
    ELSE IF Head(sorted).kanjou_score >= row.kanjou_score
         THEN <<Head(sorted)>> \o InsertByScore(Tail(sorted), row)
         ELSE <<row>> \o sorted

RECURSIVE SortByScore(_)
SortByScore(rows) ==
    IF rows = << >> THEN << >>
    ELSE InsertByScore(SortByScore(SubSeq(rows, 1, Len(rows) - 1)), rows[Len(rows)])

SentimentRanking(rows) ==
    LET top == FirstN(SortByScore(rows), TopSentiment)
    IN  [i \in 1..Len(top) |->
            [tekisuto_shorizumi |-> top[i].tekisuto_shorizumi,
             kanjou_score |-> top[i].kanjou_score]]

\* tab3: ' '.join(df_filtered[tekisuto_shorizumi].dropna())
AllText(rows) == JoinSpace([i \in 1..Len(rows) |-> rows[i].tekisuto_shorizumi])

\* tab3: ' '.join(jieba.cut(all_text))
WordText(rows) == JoinSpace(jieba_cut(AllText(rows)))

\* tab3: Counter(word_text.split()).most_common(20)
WordRanking(rows) == most_common(Counter(Split(WordText(rows))), TopWords)

(***************************************************************************)
(* WordCloud.generate raises ValueError when no word is left to draw.  It  *)
(* takes the runs of word characters of the text and drops its stop words  *)
(* ("a", "http", ...); releases differ on whether a one-letter word        *)
(* counts, so with only such words left either outcome is possible.        *)
(***************************************************************************)
CloudStopWords == {<<"a">>, HTTP, HTTP \o <<"s">>}

CloudWords(word_text) ==
    LET IsKept(w) == Lower(w) \notin CloudStopWords
    IN  SelectSeq(Runs(word_text, WordChars), IsKept)

CloudMayDraw(word_text) == CloudWords(word_text) # << >>

CloudMayRaise(word_text) ==
    \A k \in 1..Len(CloudWords(word_text)) : Len(CloudWords(word_text)[k]) = 1

(***************************************************************************)
(* tab4: the co-occurrence network.                                        *)
(***************************************************************************)
\* a < b as Python compares strings
StrLess(a, b) ==
    \E k \in 1..Len(b) :
        /\ \A m \in 1..(k - 1) : m <= Len(a) /\ a[m] = b[m]
        /\ k - 1 <= Len(a)
        /\ (k > Len(a) \/ Ord(a[k]) < Ord(b[k]))

\* the pair, had it been appended as met, without sorted()
SortedPair_AsMet(a, b) == <<a, b>>

\* tuple(sorted([a, b]))
SortedPair(a, b) == IF StrLess(b, a) THEN <<b, a>> ELSE <<a, b>>

\* [w for w in words if len(w) > 1]
IsLongWord(w) == Len(w) > 1

LongWords(text) == SelectSeq(jieba_cut(text), IsLongWord)

Min(a, b) == IF a <= b THEN a ELSE b

\* the pairs of one post, had the inner loop run one place farther
RECURSIVE PairsFrom_OneFarther(_, _, _)
PairsFrom_OneFarther(words, i, j) ==
    IF i > Len(words) THEN << >>
    ELSE IF j > Min(i + Lookahead, Len(words)) THEN PairsFrom_OneFarther(words, i + 1, i + 2)
    ELSE <<SortedPair(words[i], words[j])>> \o PairsFrom_OneFarther(words, i, j + 1)

\* the pairs of one post, in the order the two loops append them
RECURSIVE PairsFrom(_, _, _)
PairsFrom(words, i, j) ==
    IF i > Len(words) THEN << >>
    ELSE IF j > Min(i + Lookahead - 1, Len(words)) THEN PairsFrom(words, i + 1, i + 2)
    ELSE <<SortedPair(words[i], words[j])>> \o PairsFrom(words, i, j + 1)

PairsOfPost(text) == PairsFrom(LongWords(text), 1, 2)

WordPairs(rows) ==
    Flatten([i \in 1..Len(rows) |-> PairsOfPost(rows[i].tekisuto_shorizumi)])

\* pair_counts.most_common(20)
TopPairsOf(rows) == most_common(Counter(WordPairs(rows)), TopPairs)

\* nx.Graph.add_edge(u, v, weight=w)
EmptyGraph == [nodes |-> {}, edges |-> {}]

add_edge(graph, u, v, w) ==
    [nodes |-> graph.nodes \cup {u, v},
     edges |-> {e \in graph.edges : {e.u, e.v} # {u, v}}
                 \cup {[u |-> u, v |-> v, weight |-> w]}]

RECURSIVE BuildGraph(_)
BuildGraph(pairs) ==
    IF pairs = << >> THEN EmptyGraph
    ELSE LET last == pairs[Len(pairs)]
         IN  add_edge(BuildGraph(SubSeq(pairs, 1, Len(pairs) - 1)),
                      last.key[1], last.key[2], last.count)

(***************************************************************************)
(* tab5: groupby on the date and on the hour; a NaT row is in no group.    *)
(***************************************************************************)
HasTimestamp(row) == row.toukou_nichiji.kind = "ts"

AllNaT(rows) == \A i \in 1..Len(rows) : ~HasTimestamp(rows[i])

Dated(rows) == {i \in 1..Len(rows) : HasTimestamp(rows[i])}

DailyPosts(rows) ==
    {[date |-> d, count |-> Cardinality({i \in Dated(rows) : rows[i].toukou_nichiji.date = d})] :
        d \in {rows[i].toukou_nichiji.date : i \in Dated(rows)}}

HourlyPosts(rows) ==
    {[hour |-> h, count |-> Cardinality({i \in Dated(rows) : rows[i].toukou_nichiji.hour = h})] :
        h \in {rows[i].toukou_nichiji.hour : i \in Dated(rows)}}

\* the daily mean, kept as the sum of the scores over the number of posts
SentimentTime(rows) ==
    {[date |-> d,
      sum_sentiment |->
          SumSeq([i \in 1..Len(rows) |->
                     IF HasTimestamp(rows[i]) /\ rows[i].toukou_nichiji.date = d
                     THEN rows[i].kanjou_score ELSE 0]),
      posts |-> Cardinality({i \in Dated(rows) : rows[i].toukou_nichiji.date = d})] :
        d \in {rows[i].toukou_nichiji.date : i \in Dated(rows)}}

(***************************************************************************)
(* The run of the script (app.py, "main flow").  pc is the position of the *)
(* run; an exception that nothing catches ends it at "raised".             *)
(***************************************************************************)
VARIABLES
    uploaded_file,    \* the file of the sidebar's uploader
    search_hashtag,   \* the text of the sidebar's input
    pc,               \* "main", "filter", "tab1" .. "tab5", "done", "raised"
    exception,        \* the uncaught exception, "" when there is none
    shown,            \* the st.error/success/info/warning messages, in order
    df,               \* the processed batch, None before and without a load
    text_column,
    df_filtered,
    ran,              \* the stages that have run
    stats,
    preview,
    top_hashtags,
    sentiment_df,
    top_words,
    pair_counts,
    top_pairs,
    G,
    daily_posts,
    hourly_posts,
    sentiment_time

inputs == <<uploaded_file, search_hashtag>>
frames == <<df, text_column, df_filtered>>
tab1_out == <<stats, preview>>
tab2_out == <<top_hashtags, sentiment_df>>
tab4_out == <<pair_counts, top_pairs, G>>
tab5_out == <<daily_posts, hourly_posts, sentiment_time>>
vars == <<inputs, pc, exception, shown, frames, ran, tab1_out, tab2_out,
          top_words, tab4_out, tab5_out>>

NoStats == [total |-> 0, sum_length |-> 0, total_hashtags |-> 0, sum_sentiment |-> 0]

Start(file, query) ==
    /\ uploaded_file = file
    /\ search_hashtag = query
    /\ pc = "main"
    /\ exception = ""
    /\ shown = << >>
    /\ df = None
    /\ text_column = "None"
    /\ df_filtered = None
    /\ ran = {}
    /\ stats = NoStats
    /\ preview = << >>
    /\ top_hashtags = << >>
    /\ sentiment_df = << >>
    /\ top_words = << >>
    /\ pair_counts = << >>
    /\ top_pairs = << >>
    /\ G = EmptyGraph
    /\ daily_posts = {}
    /\ hourly_posts = {}
    /\ sentiment_time = {}

\* lines 405-406: nothing was uploaded
NoUpload ==
    /\ pc = "main"
    /\ uploaded_file.kind = "none"
    /\ shown' = Append(shown, "info_upload")
    /\ pc' = "done"
    /\ UNCHANGED <<inputs, exception, frames, ran, tab1_out, tab2_out,
                   top_words, tab4_out, tab5_out>>

\* lines 159-160: df, text_column = load_and_process_data(uploaded_file);
\* unpacking the bare None raises TypeError
Load ==
    /\ pc = "main"
    /\ uploaded_file.kind # "none"
    /\ LET ret == load_and_process_data(uploaded_file)
       IN  /\ shown' = IF ret.error = "" THEN shown ELSE Append(shown, ret.error)
           /\ ran' = ran \cup {"load"}
           /\ IF ret.returns = "None"
              THEN /\ exception' = "TypeError"
                   /\ pc' = "raised"
                   /\ UNCHANGED <<df, text_column>>
              ELSE /\ df' = ret.df
                   /\ text_column' = ret.text_column
                   /\ pc' = IF ret.df.kind = "None" THEN "done" ELSE "filter"
                   /\ UNCHANGED exception
    /\ UNCHANGED <<inputs, df_filtered, tab1_out, tab2_out, top_words, tab4_out, tab5_out>>

\* lines 162-173 and 402-403
Filter ==
    /\ pc = "filter"
    /\ LET filtered == IF search_hashtag # << >>
                       THEN filter_by_hashtag(df, search_hashtag) ELSE df
       IN  /\ df_filtered' = filtered
           /\ shown' = shown \o <<"success_loaded",
                                  IF search_hashtag # << >> THEN "info_filtered"
                                  ELSE "info_all_posts">>
                             \o (IF Len(filtered.rows) > 0 THEN << >>
                                 ELSE <<"warning_no_match">>)
           /\ pc' = IF Len(filtered.rows) > 0 THEN "tab1" ELSE "done"
    /\ ran' = ran \cup {"filter"}
    /\ UNCHANGED <<inputs, exception, df, text_column, tab1_out, tab2_out,
                   top_words, tab4_out, tab5_out>>

\* lines 183-208: the metrics, then the preview, whose column selection raises
\* KeyError when the frame has no timestamp column
Tab1 ==
    /\ pc = "tab1"
    /\ stats' = BasicStats(df_filtered.rows)
    /\ ran' = ran \cup {"tab1"}
    /\ IF COL_TOUKOU_NICHIJI \in df_filtered.columns
       THEN /\ preview' = Preview(df_filtered.rows)
            /\ pc' = "tab2"
            /\ UNCHANGED exception
       ELSE /\ exception' = "KeyError"
            /\ pc' = "raised"
            /\ UNCHANGED preview
    /\ UNCHANGED <<inputs, shown, frames, tab2_out, top_words, tab4_out, tab5_out>>

\* lines 210-250
Tab2 ==
    /\ pc = "tab2"
    /\ top_hashtags' = HashtagRanking(df_filtered.rows)
    /\ sentiment_df' = SentimentRanking(df_filtered.rows)
    /\ shown' = IF HashtagRanking(df_filtered.rows) = << >>
                THEN Append(shown, "info_no_hashtags") ELSE shown
    /\ ran' = ran \cup {"tab2"}
    /\ pc' = "tab3"
    /\ UNCHANGED <<inputs, exception, frames, tab1_out, top_words, tab4_out, tab5_out>>

\* lines 252-295
Tab3 ==
    /\ pc = "tab3"
    /\ ran' = ran \cup {"tab3"}
    /\ \/ /\ Strip(AllText(df_filtered.rows)) = << >>
          /\ shown' = Append(shown, "info_no_text")
          /\ pc' = "tab4"
          /\ UNCHANGED <<exception, top_words>>
       \/ /\ Strip(AllText(df_filtered.rows)) # << >>
          /\ CloudMayDraw(WordText(df_filtered.rows))
          /\ top_words' = WordRanking(df_filtered.rows)
          /\ pc' = "tab4"
          /\ UNCHANGED <<exception, shown>>
       \/ /\ Strip(AllText(df_filtered.rows)) # << >>
          /\ CloudMayRaise(WordText(df_filtered.rows))
          /\ exception' = "ValueError"
          /\ pc' = "raised"
          /\ UNCHANGED <<shown, top_words>>
    /\ UNCHANGED <<inputs, frames, tab1_out, tab2_out, tab4_out, tab5_out>>

\* lines 297-355
Tab4 ==
    /\ pc = "tab4"
    /\ ran' = ran \cup {"tab4"}
    /\ IF WordPairs(df_filtered.rows) # << >>
       THEN /\ pair_counts' = Counter(WordPairs(df_filtered.rows))
            /\ top_pairs' = TopPairsOf(df_filtered.rows)
            /\ G' = BuildGraph(TopPairsOf(df_filtered.rows))
            /\ UNCHANGED shown
       ELSE /\ shown' = Append(shown, "info_no_pairs")
            /\ UNCHANGED tab4_out
    /\ pc' = "tab5"
    /\ UNCHANGED <<inputs, exception, frames, tab1_out, tab2_out, top_words, tab5_out>>

\* lines 357-401
Tab5 ==
    /\ pc = "tab5"
    /\ ran' = ran \cup {"tab5"}
    /\ IF COL_TOUKOU_NICHIJI \in df_filtered.columns /\ ~AllNaT(df_filtered.rows)
       THEN /\ daily_posts' = DailyPosts(df_filtered.rows)
            /\ hourly_posts' = HourlyPosts(df_filtered.rows)
            /\ sentiment_time' = SentimentTime(df_filtered.rows)
            /\ UNCHANGED shown
       ELSE /\ shown' = Append(shown, "info_no_timestamps")
            /\ UNCHANGED tab5_out
    /\ pc' = "done"
    /\ UNCHANGED <<inputs, exception, frames, tab1_out, tab2_out, top_words, tab4_out>>

Next == NoUpload \/ Load \/ Filter \/ Tab1 \/ Tab2 \/ Tab3 \/ Tab4 \/ Tab5

(***************************************************************************)
(* The inputs of a run: four families of files and queries, each bounded.  *)
(***************************************************************************)
\* the strings made of at most n of the pieces
RECURSIVE TextsOf(_, _)
TextsOf(pieces, n) ==
    IF n = 0 THEN {<< >>}
    ELSE LET shorter == TextsOf(pieces, n - 1)
         IN  shorter \cup {t \o p : t \in shorter, p \in pieces}

\* the sequences of at most n elements of S
RECURSIVE SeqsUpTo(_, _)
SeqsUpTo(S, n) ==
    IF n = 0 THEN {<< >>}
    ELSE LET shorter == SeqsUpTo(S, n - 1)
         IN  shorter \cup {Append(q, x) : q \in shorter, x \in S}

Slash(d, h) == [kind |-> "slash", date |-> d, hour |-> h]
Iso(d, h) == [kind |-> "iso", date |-> d, hour |-> h]
BadDate == [kind |-> "bad"]

NoFile == [kind |-> "none"]
Malformed == [kind |-> "malformed"]
Csv(header, rows) == [kind |-> "csv", header |-> header, rows |-> rows]

\* "bad #B"
TextBadB == Str(<<"b", "a", "d", " ", "#", "B">>)

BaseCells(column) ==
    CASE column = "toukou_nichiji" -> {NaN, BadDate, Slash(1, 9), Slash(2, 21), Iso(1, 9)}
      [] column = "created_at" -> {NaN, BadDate, Iso(1, 9), Iso(2, 21)}
      [] column \in {"tekisuto", "text", "content"} -> {NaN, TextBadB}
      [] OTHER -> {Str(<<"a">>)}

BaseHeaders ==
    {{"toukou_nichiji", "tekisuto"}, {"created_at", " text"}, {"tekisuto"},
     {"toukou_nichiji ", "body"}, {"content", "tweet_text"}}

RowsOver(header) ==
    {row \in [header -> UNION {BaseCells(StripName(c)) : c \in header}] :
        \A c \in header : row[c] \in BaseCells(StripName(c))}

BaseFiles ==
    {NoFile, Malformed}
      \cup UNION {{Csv(header, rows) : rows \in SeqsUpTo(RowsOver(header), MaxRows)} :
                    header \in BaseHeaders}

BaseInputs == BaseFiles \X {<< >>, <<"b">>}

\* a table of the two usual columns whose rows all carry the same timestamp
PlainCsv(texts) ==
    Csv({"toukou_nichiji", "tekisuto"},
        [i \in 1..Len(texts) |->
            [c \in {"toukou_nichiji", "tekisuto"} |->
                IF c = "tekisuto" THEN Str(texts[i]) ELSE Slash(1, 9)]])

\* normalisation: one post made of at most MaxPieces pieces
NormPieces ==
    {HTTP \o COLON_SLASHES, HTTP \o <<"s">> \o COLON_SLASHES, <<"a">>, <<"@">>,
     <<"#">>, <<" ">>, <<"\t">>, <<"!">>, <<"EMOJI">>, <<"KANA">>}

NormInputs ==
    {<<PlainCsv(<<t>>), << >>>> : t \in TextsOf(NormPieces, MaxPieces) \ {<< >>}}

\* filtering: a few posts, every query of at most MaxQuery characters
FilterTexts ==
    {<<"#">> \o HTTP \o COLON_SLASHES \o <<"a">>,
     <<"a", "b">>,
     <<"#", "A", "b", " ", "b">>}

QueryChars == {"a", "B", "#", ".", "h"}

FilterInputs ==
    {PlainCsv(texts) : texts \in SeqsUpTo(FilterTexts, MaxRows)}
       \X SeqsUpTo(QueryChars, MaxQuery)

\* co-occurrence: posts that are words separated by blanks
Words(ws) == JoinSpace(ws)

W_ab == <<"a", "b">>
W_ac == <<"a", "c">>
W_ba == <<"b", "a">>
W_bc == <<"b", "c">>
W_ca == <<"c", "a">>
W_cb == <<"c", "b">>
W_aa == <<"a", "a">>
W_bb == <<"b", "b">>

GraphTexts ==
    {Words(<<W_ab, W_ac, W_ba, W_bc, W_ca, W_cb, W_aa, W_bb>>),
     Words(<<W_ab, W_bc, W_aa, W_ac, W_cb, W_ba, W_bb, W_ca>>),
     Words(<<W_ab, W_ba>>),
     Words(<<W_ba, W_ab>>),
     Words(<<W_ab, W_ab>>),
     Words(<<W_ab, <<"a">>, W_ba, <<"#">>, W_ca>>),
     Words(<<W_ab, W_ba, W_ca, W_ab>>),
     Words(<<W_ca, W_ab, W_ca>>)}

GraphInputs ==
    {<<PlainCsv(texts), << >>>> : texts \in SeqsUpTo(GraphTexts, MaxRows)}

Inputs == BaseInputs \cup NormInputs \cup FilterInputs \cup GraphInputs

Init == \E input \in Inputs : Start(input[1], input[2])

Spec == Init /\ [][Next]_vars

(***************************************************************************)
(* Properties of the run.                                                  *)
(***************************************************************************)
Loaded == df.kind = "df"

HasNoTextColumn(file) == file.kind = "csv" /\ FirstTextColumn(Columns(file)) = 0

\* C1: when the table has none of the accepted text columns, the run shows
\* the load error and ends at "done" with no batch, no later stage and no
\* uncaught exception.
C1_NoTextColumnEndsAsLoadFailure ==
    (HasNoTextColumn(uploaded_file) /\ pc # "main") =>
        /\ shown = <<"no_text_column">>
        /\ pc = "done"
        /\ exception = ""
        /\ df.kind = "None"
        /\ df_filtered.kind = "None"
        /\ ran = {"load"}

\* the posts the claim C2 expects of the filter
SubstringFiltered(rows, query) ==
    LET InText(row) == Contains(Lower(row.tekisuto_shorizumi), Lower(query))
        InTags(row) ==
            \E k \in 1..Len(row.hashtag) : Contains(Lower(row.hashtag[k]), Lower(query))
    IN  IF query = << >> THEN rows
        ELSE IF SelectSeq(rows, InText) # << >> THEN SelectSeq(rows, InText)
        ELSE SelectSeq(rows, InTags)

\* C2: the filter returns the batch for the empty query, else the posts whose
\* normalized text contains the query as a case-insensitive substring, and
\* only when there is none the posts with a hashtag that contains it.
C2_FilterIsSubstringThenHashtags ==
    "filter" \in ran => df_filtered.rows = SubstringFiltered(df.rows, search_hashtag)

\* C3: every edge of the graph joins two distinct tokens and weighs at least 1.
C3_EdgesJoinDistinctTokens ==
    \A e \in G.edges : e.u # e.v /\ e.weight \in Nat /\ e.weight >= 1

\* the words of each post that the network counts
PostWords == [r \in 1..Len(df_filtered.rows) |->
                 LongWords(df_filtered.rows[r].tekisuto_shorizumi)]

\* the places (r, i, j) where the word at i of post r meets the word at j:
\* j is i + 1 or i + 2
MeetingsIn(words, r) ==
    LET n == Len(words[r])
    IN  {<<r, p[1], p[2]>> : p \in {q \in (1..n) \X (1..n) : q[2] \in {q[1] + 1, q[1] + 2}}}

Meetings(words) == UNION {MeetingsIn(words, r) : r \in DOMAIN words}

CountedWords(words) == UNION {{words[r][i] : i \in 1..Len(words[r])} : r \in DOMAIN words}

EntriesOf(a, b) ==
    {k \in 1..Len(pair_counts) : {pair_counts[k].key[1], pair_counts[k].key[2]} = {a, b}}

\* C4: the meetings of a with b and those of b with a are counted in one
\* entry, whose count is the number of both together.
C4_PairCountIsOrderIndependent ==
    "tab4" \in ran =>
        LET words == PostWords
            meetings == Meetings(words)
            Of(a, b) == {m \in meetings : words[m[1]][m[2]] = a /\ words[m[1]][m[3]] = b}
        IN  \A a, b \in CountedWords(words) :
                LET both == Of(a, b) \cup Of(b, a)
                IN  IF both = {} THEN EntriesOf(a, b) = {}
                    ELSE /\ Cardinality(EntriesOf(a, b)) = 1
                         /\ \A k \in EntriesOf(a, b) :
                                pair_counts[k].count = Cardinality(both)

\* a met b in one post and b met a in another
C4_Witness ==
    /\ "tab4" \in ran
    /\ LET words == PostWords
           meetings == Meetings(words)
           Of(a, b) == {m \in meetings : words[m[1]][m[2]] = a /\ words[m[1]][m[3]] = b}
       IN  \E a, b \in CountedWords(words) :
              /\ a # b
              /\ \E m \in Of(a, b), n \in Of(b, a) : m[1] # n[1]
              /\ \E k \in EntriesOf(a, b) : pair_counts[k].count >= 2

\* how often each pair was appended, and where it was appended first
TimesSeen(all) ==
    [key \in {all[i] : i \in 1..Len(all)} |->
        Cardinality({i \in 1..Len(all) : all[i] = key})]

FirstSeen(all) ==
    [key \in {all[i] : i \in 1..Len(all)} |->
        CHOOSE i \in 1..Len(all) : all[i] = key /\ \A j \in 1..(i - 1) : all[j] # key]

\* key1 is ranked before key2: more often seen, or as often and seen first
RankedBefore(times, first, key1, key2) ==
    \/ times[key1] > times[key2]
    \/ times[key1] = times[key2] /\ first[key1] < first[key2]

RetainedKeys == {top_pairs[k].key : k \in 1..Len(top_pairs)}

\* C5: the graph holds the min(20, distinct pairs) pairs of highest count,
\* in descending count order, ties in first-seen order; each is one edge
\* weighing its count, and the nodes are the endpoints of the edges.
C5_GraphIsTopTwentyPairs ==
    "tab4" \in ran =>
        LET all == WordPairs(df_filtered.rows)
            times == TimesSeen(all)
            first == FirstSeen(all)
            distinct == DOMAIN times
            retained == RetainedKeys
        IN  /\ Len(top_pairs) = Min(20, Cardinality(distinct))
            /\ Cardinality(retained) = Len(top_pairs)
            /\ retained \subseteq distinct
            /\ \A k \in 1..Len(top_pairs) : top_pairs[k].count = times[top_pairs[k].key]
            /\ \A k \in 1..(Len(top_pairs) - 1) :
                  RankedBefore(times, first, top_pairs[k].key, top_pairs[k + 1].key)
            /\ \A key \in distinct \ retained :
                  RankedBefore(times, first, top_pairs[Len(top_pairs)].key, key)
            /\ G.edges = {[u |-> key[1], v |-> key[2], weight |-> times[key]] :
                            key \in retained}
            /\ G.nodes = {key[1] : key \in retained} \cup {key[2] : key \in retained}

\* more than 20 pairs, one of the dropped as frequent as the last retained
C5_Witness ==
    /\ "tab4" \in ran
    /\ Len(top_pairs) = 20
    /\ top_pairs[1].count > top_pairs[20].count
    /\ LET times == TimesSeen(WordPairs(df_filtered.rows))
       IN  /\ Cardinality(DOMAIN times) > 20
           /\ \E key \in DOMAIN times \ RetainedKeys : times[key] = top_pairs[20].count

\* the timestamp cell of row i of the uploaded table, NaN when the table has
\* neither timestamp column
TimestampCell(i) ==
    LET columns == Columns(uploaded_file)
    IN  IF COL_TOUKOU_NICHIJI \in columns
        THEN CellOf(uploaded_file, uploaded_file.rows[i], COL_TOUKOU_NICHIJI)
        ELSE IF COL_CREATED_AT \in columns
        THEN CellOf(uploaded_file, uploaded_file.rows[i], COL_CREATED_AT)
        ELSE NaN

HasTimestampColumn ==
    {COL_TOUKOU_NICHIJI, COL_CREATED_AT} \cap Columns(uploaded_file) # {}

Undated == {i \in 1..Len(df.rows) : TimestampCell(i).kind \in {"nan", "bad"}}

\* C6: a post without a usable timestamp gets a null timestamp, never makes
\* the run fail, is counted by the statistics and rankings of a run that
\* analyses the whole batch, and is in no daily or hourly group.
C6_UndatedPostsAreKeptAndNeverFail ==
    (Loaded /\ Undated # {}) =>
        /\ exception # "KeyError"
        /\ HasTimestampColumn => \A i \in Undated : df.rows[i].toukou_nichiji = NaT
        /\ (search_hashtag = << >> /\ "tab5" \in ran) =>
              /\ stats.total = Len(df.rows)
              /\ Len(sentiment_df) = Min(TopSentiment, Len(df.rows))
              /\ \A g \in daily_posts : g.count <= Len(df.rows) - Cardinality(Undated)
              /\ \A g \in hourly_posts : g.count <= Len(df.rows) - Cardinality(Undated)

\* the text cell of row i of the uploaded table
TextCell(i) == CellOf(uploaded_file, uploaded_file.rows[i], text_column)

\* C7: a post whose text is missing has the empty string as normalized text.
C7_MissingTextNormalizesToEmpty ==
    Loaded => \A i \in 1..Len(df.rows) :
                 IsNa(TextCell(i)) => df.rows[i].tekisuto_shorizumi = << >>

\* C8: normalizing a normalized text changes nothing.
C8_NormalizerIsIdempotent ==
    Loaded => \A i \in 1..Len(df.rows) :
                 preprocess_text(Str(df.rows[i].tekisuto_shorizumi))
                     = df.rows[i].tekisuto_shorizumi

\* a post with a mention sign, an emoji and text that survives
C8_Witness ==
    /\ Loaded
    /\ \E i \in 1..Len(df.rows) :
          /\ ~IsNa(TextCell(i))
          /\ \E k \in 1..Len(TextCell(i).s) : TextCell(i).s[k] = "@"
          /\ \E k \in 1..Len(TextCell(i).s) : TextCell(i).s[k] = "EMOJI"
          /\ df.rows[i].tekisuto_shorizumi # << >>
          /\ df.rows[i].tekisuto_shorizumi # TextCell(i).s

C10_NoSingleCharacterTokens ==
    /\ \A k \in 1..Len(top_words) : Len(top_words[k].key) # 1
    /\ \A k \in 1..Len(pair_counts) :
          Len(pair_counts[k].key[1]) # 1 /\ Len(pair_counts[k].key[2]) # 1

====
